---- MODULE Spec2Model ----
(***************************************************************************)
(* The vt_state_table macro of codegen/src/ext/vt.rs: a token stream of    *)
(* per-state blocks of `pattern => transition` arms is parsed, resolved    *)
(* into TableDefinitions, expanded into a 16 x 256 table of packed bytes   *)
(* and emitted as a nested array expression.                               *)
(***************************************************************************)
EXTENDS Integers, Sequences, FiniteSets, TLC

VARIABLES
    args,         \* the macro's token stream (expand_state_table's `args`)
    pc,           \* position inside expand_state_table
    definitions,  \* Vec<TableDefinitionExprs> from parse_table_definition_list
    defs,         \* Vec<TableDefinition> from parse_raw_definitions
    table,        \* [[u8; 256]; 16] from build_state_tables
    ret,          \* the MacResult: "none", "DummyResult" or "MacEager"
    ast,          \* the emitted expression (<<>> while nothing is emitted)
    errs          \* diagnostics given to cx.span_err / err.emit, in order

vars == <<args, pc, definitions, defs, table, ret, ast, errs>>

-----------------------------------------------------------------------------
(* Program constants *)

NumStates == 16
NumInputs == 256
U8Mod == 256

(* Bounds of the model *)

MaxItems == 4
MaxTupLen == 3

-----------------------------------------------------------------------------
(* Result<T, ()> *)

Ok(v) == [ok |-> TRUE, val |-> v]
Err(m) == [ok |-> FALSE, msg |-> m]

SeqToSet(s) == {s[i] : i \in 1..Len(s)}

-----------------------------------------------------------------------------
(* definitions.rs: the enums, in declaration order; `x as u8` is the       *)
(* position in that order, counted from 0.                                 *)

StateNames ==
    <<"Anywhere", "CsiEntry", "CsiIgnore", "CsiIntermediate", "CsiParam",
      "DcsEntry", "DcsIgnore", "DcsIntermediate", "DcsParam",
      "DcsPassthrough", "Escape", "EscapeIntermediate", "Ground",
      "OscString", "SosPmApcString", "Utf8">>

ActionNames ==
    <<"None", "Clear", "Collect", "CsiDispatch", "EscDispatch", "Execute",
      "Hook", "Ignore", "OscEnd", "OscPut", "OscStart", "Param", "Print",
      "Put", "Unhook", "BeginUtf8">>

StateAsU8(state) == (CHOOSE i \in 1..Len(StateNames) : StateNames[i] = state) - 1
ActionAsU8(action) == (CHOOSE i \in 1..Len(ActionNames) : ActionNames[i] = action) - 1

-----------------------------------------------------------------------------
(* Symbol resolution *)

state_from_str(s) ==
    IF \E n \in SeqToSet(StateNames) : s = "State::" \o n
    THEN Ok(CHOOSE n \in SeqToSet(StateNames) : s = "State::" \o n)
    ELSE Err("")

action_from_str(s) ==
    IF \E n \in SeqToSet(ActionNames) : s = "Action::" \o n
    THEN Ok(CHOOSE n \in SeqToSet(ActionNames) : s = "Action::" \o n)
    ELSE Err("")

(* Path strings that are no state and no action *)
BadPaths == {"State::Bogus", "Action::Bogus", "Anywhere", "Ground"}

(* path_str.starts_with('A'): TLC cannot index into a string, so the first  *)
(* character is tabulated over the path strings of the model.               *)
starts_with_A(s) ==
    \/ \E n \in SeqToSet(ActionNames) : s = "Action::" \o n
    \/ s \in {"Action::Bogus", "Anywhere"}

-----------------------------------------------------------------------------
(* Expressions, patterns and arms of the host AST *)

PathExpr(s) == [kind |-> "Path", path |-> s]
IntLit(v) == [kind |-> "Lit", lit |-> "Int", val |-> v]
StrLit == [kind |-> "Lit", lit |-> "Str", val |-> 0]
TupExpr(es) == [kind |-> "Tup", elems |-> es]
OtherExpr == [kind |-> "Other"]

LitPat(e) == [kind |-> "Lit", expr |-> e]
RangePat(s, e) == [kind |-> "Range", start |-> s, end |-> e]
WildPat == [kind |-> "Wild"]

MkArm(p, b) == [pats |-> <<p>>, body |-> b]

state_from_expr(expr) ==
    IF expr.kind = "Path"
    THEN IF state_from_str(expr.path).ok
         THEN Ok(state_from_str(expr.path).val)
         ELSE Err("expected State")
    ELSE Err("expected State")

(* u8_lit_from_expr with a range check: a literal above 255 is an error *)
u8_lit_from_expr_Checked(expr) ==
    IF expr.kind = "Lit" /\ expr.lit = "Int" /\ expr.val < U8Mod
    THEN Ok(expr.val)
    ELSE Err("expected u8 int literal")

u8_lit_from_expr(expr) ==
    IF expr.kind = "Lit"
    THEN IF expr.lit = "Int"
         THEN Ok(expr.val % U8Mod)
         ELSE Err("expected u8 int literal")
    ELSE Err("expected u8 int literal")

-----------------------------------------------------------------------------
(* Transition *)

TState(s) == [kind |-> "State", state |-> s]
TAction(a) == [kind |-> "Action", action |-> a]
TStateAction(s, a) == [kind |-> "StateAction", state |-> s, action |-> a]

(* (action as u8) << 4 in u8 *)
Shl4(x) == (x * 16) % U8Mod

(* a | b on bytes, bit by bit *)
BitOr(a, b) ==
    LET bit(x, i) == (x \div (2 ^ i)) % 2
        f[i \in 0..8] ==
            IF i = 8 THEN 0
            ELSE (IF bit(a, i) = 1 \/ bit(b, i) = 1 THEN 2 ^ i ELSE 0) + f[i + 1]
    IN f[0]

(* pack_u8 with the nibbles swapped: the state in the top 4 bits *)
pack_u8_StateHigh(t) ==
    CASE t.kind = "State" -> Shl4(StateAsU8(t.state))
      [] t.kind = "Action" -> ActionAsU8(t.action)
      [] t.kind = "StateAction" ->
            BitOr(Shl4(StateAsU8(t.state)), ActionAsU8(t.action))

(* pack_u8 with the shift of a lone action forgotten *)
pack_u8_NoShift(t) ==
    CASE t.kind = "State" -> StateAsU8(t.state)
      [] t.kind = "Action" -> ActionAsU8(t.action)
      [] t.kind = "StateAction" ->
            BitOr(Shl4(ActionAsU8(t.action)), StateAsU8(t.state))

pack_u8(t) ==
    CASE t.kind = "State" -> StateAsU8(t.state)
      [] t.kind = "Action" -> Shl4(ActionAsU8(t.action))
      [] t.kind = "StateAction" ->
            BitOr(Shl4(ActionAsU8(t.action)), StateAsU8(t.state))

(* The loop over a tuple's elements: `acc` holds the `action` and `state`   *)
(* options, an element that is no path is skipped, a path that does not     *)
(* resolve returns early.                                                   *)
RECURSIVE TupLoop(_, _, _)
TupLoop(elems, i, acc) ==
    IF i > Len(elems) THEN Ok(acc)
    ELSE LET e == elems[i] IN
         IF e.kind = "Path"
         THEN IF starts_with_A(e.path)
              THEN IF action_from_str(e.path).ok
                   THEN TupLoop(elems, i + 1,
                                [acc EXCEPT !.action = <<action_from_str(e.path).val>>])
                   ELSE Err("invalid action")
              ELSE IF state_from_str(e.path).ok
                   THEN TupLoop(elems, i + 1,
                                [acc EXCEPT !.state = <<state_from_str(e.path).val>>])
                   ELSE Err("invalid state")
         ELSE TupLoop(elems, i + 1, acc)

from_expr(expr) ==
    CASE expr.kind = "Tup" ->
            LET r == TupLoop(expr.elems, 1, [action |-> <<>>, state |-> <<>>]) IN
            IF ~r.ok THEN r
            ELSE CASE r.val.action # <<>> /\ r.val.state # <<>> ->
                          Ok(TStateAction(r.val.state[1], r.val.action[1]))
                   [] r.val.action = <<>> /\ r.val.state # <<>> ->
                          Ok(TState(r.val.state[1]))
                   [] r.val.action # <<>> /\ r.val.state = <<>> ->
                          Ok(TAction(r.val.action[1]))
                   [] OTHER -> Err("expected Action and/or State")
      [] expr.kind = "Path" ->
            IF starts_with_A(expr.path)
            THEN IF action_from_str(expr.path).ok
                 THEN Ok(TAction(action_from_str(expr.path).val))
                 ELSE Err("invalid action")
            ELSE IF state_from_str(expr.path).ok
                 THEN Ok(TState(state_from_str(expr.path).val))
                 ELSE Err("invalid state")
      [] OTHER -> Err("expected Action and/or State")

-----------------------------------------------------------------------------
(* InputDefinition *)

Specific(b) == [kind |-> "Specific", idx |-> b]
Range(s, e) == [kind |-> "Range", start |-> s, end |-> e]

from_pat(pat) ==
    CASE pat.kind = "Lit" ->
            IF u8_lit_from_expr(pat.expr).ok
            THEN Ok(Specific(u8_lit_from_expr(pat.expr).val))
            ELSE u8_lit_from_expr(pat.expr)
      [] pat.kind = "Range" ->
            IF ~u8_lit_from_expr(pat.start).ok THEN u8_lit_from_expr(pat.start)
            ELSE IF ~u8_lit_from_expr(pat.end).ok THEN u8_lit_from_expr(pat.end)
            ELSE Ok(Range(u8_lit_from_expr(pat.start).val,
                          u8_lit_from_expr(pat.end).val))
      [] OTHER -> Err("expected literal or range expression")

input_mapping_from_arm(arm) ==
    IF ~from_pat(arm.pats[1]).ok THEN from_pat(arm.pats[1])
    ELSE IF ~from_expr(arm.body).ok THEN from_expr(arm.body)
    ELSE Ok([input |-> from_pat(arm.pats[1]).val,
             transition |-> from_expr(arm.body).val])

-----------------------------------------------------------------------------
(* The token stream.  A stream is a sequence of items: `open` stands for    *)
(* the tokens `<expr> => {` that begin a definition (the closing brace of   *)
(* the previous one implied), `arm` for one match arm inside the braces.    *)

OpenItem(e) == [item |-> "open", state_expr |-> e]
ArmItem(a) == [item |-> "arm", arm |-> a]

(* parse_table_input_mappings: the arms up to the closing brace *)
RECURSIVE parse_table_input_mappings(_, _)
parse_table_input_mappings(items, i) ==
    IF i > Len(items) \/ items[i].item # "arm" THEN <<>>
    ELSE <<items[i].arm>> \o parse_table_input_mappings(items, i + 1)

(* parse_table_definition_list: definitions until Eof; an arm where a       *)
(* definition must begin is a syntax error of the host parser.              *)
RECURSIVE parse_table_definition_list(_, _)
parse_table_definition_list(items, i) ==
    IF i > Len(items) THEN Ok(<<>>)
    ELSE IF items[i].item # "open" THEN Err("syntax error")
    ELSE LET arms == parse_table_input_mappings(items, i + 1)
             rest == parse_table_definition_list(items, i + 1 + Len(arms))
         IN IF rest.ok
            THEN Ok(<<[state_expr |-> items[i].state_expr,
                       mapping_arms |-> arms]>> \o rest.val)
            ELSE rest

-----------------------------------------------------------------------------
(* parse_raw_definitions *)

(* the inner loop: `for arm in mapping_arms`, stopping at the first error *)
(* the inner loop with a failing arm skipped instead of returned *)
RECURSIVE MappingsLoopSkip(_, _)
MappingsLoopSkip(arms, i) ==
    IF i > Len(arms) THEN Ok(<<>>)
    ELSE LET m == input_mapping_from_arm(arms[i])
             rest == MappingsLoopSkip(arms, i + 1)
         IN IF m.ok THEN Ok(<<m.val>> \o rest.val) ELSE rest

RECURSIVE MappingsLoop(_, _)
MappingsLoop(arms, i) ==
    IF i > Len(arms) THEN Ok(<<>>)
    ELSE LET m == input_mapping_from_arm(arms[i]) IN
         IF ~m.ok THEN m
         ELSE LET rest == MappingsLoop(arms, i + 1) IN
              IF rest.ok THEN Ok(<<m.val>> \o rest.val) ELSE rest

RECURSIVE parse_raw_definitions(_, _)
parse_raw_definitions(raws, i) ==
    IF i > Len(raws) THEN Ok(<<>>)
    ELSE LET state == state_from_expr(raws[i].state_expr) IN
         IF ~state.ok THEN state
         ELSE LET mappings == MappingsLoop(raws[i].mapping_arms, 1) IN
              IF ~mappings.ok THEN mappings
              ELSE LET rest == parse_raw_definitions(raws, i + 1) IN
                   IF rest.ok
                   THEN Ok(<<[state |-> state.val, mappings |-> mappings.val]>>
                           \o rest.val)
                   ELSE rest

-----------------------------------------------------------------------------
(* build_state_tables *)

ZeroTable == [s \in 0..(NumStates - 1) |-> [b \in 0..(NumInputs - 1) |-> 0]]

(* the indices written for Range { start, end }: `for idx in start..end`    *)
(* and then `end` itself                                                    *)
(* the range loop without the write of `end` after it *)
RangeCellsExclusive(start, end) ==
    {idx \in 0..(NumInputs - 1) : start <= idx /\ idx < end}

RangeCells(start, end) ==
    {idx \in 0..(NumInputs - 1) : start <= idx /\ idx < end} \cup {end}

ApplyMapping(transitions, mapping) ==
    LET trans == pack_u8(mapping.transition) IN
    IF mapping.input.kind = "Specific"
    THEN [transitions EXCEPT ![mapping.input.idx] = trans]
    ELSE [idx \in 0..(NumInputs - 1) |->
            IF idx \in RangeCells(mapping.input.start, mapping.input.end)
            THEN trans ELSE transitions[idx]]

RECURSIVE ApplyMappings(_, _, _)
ApplyMappings(transitions, mappings, i) ==
    IF i > Len(mappings) THEN transitions
    ELSE ApplyMappings(ApplyMapping(transitions, mappings[i]), mappings, i + 1)

RECURSIVE BuildLoop(_, _, _)
BuildLoop(result, ds, i) ==
    IF i > Len(ds) THEN result
    ELSE LET state == StateAsU8(ds[i].state) IN
         BuildLoop([result EXCEPT
                       ![state] = ApplyMappings(result[state], ds[i].mappings, 1)],
                   ds, i + 1)

build_state_tables(ds) == BuildLoop(ZeroTable, ds, 1)

(* build_table_ast: a vec expression of 16 vec expressions of 256 u8        *)
(* literals, in row order                                                   *)
build_table_ast(t) ==
    [r \in 1..NumStates |-> [c \in 1..NumInputs |-> t[r - 1][c - 1]]]

-----------------------------------------------------------------------------
(* expand_state_table, step by step *)

ParseTableDefinitionList ==
    /\ pc = "tokens"
    /\ parse_table_definition_list(args, 1).ok
    /\ definitions' = parse_table_definition_list(args, 1).val
    /\ pc' = "raw"
    /\ UNCHANGED <<args, defs, table, ret, ast, errs>>

SyntaxError ==
    /\ pc = "tokens"
    /\ ~parse_table_definition_list(args, 1).ok
    /\ errs' = Append(errs, parse_table_definition_list(args, 1).msg)
    /\ ret' = "DummyResult"
    /\ pc' = "done"
    /\ UNCHANGED <<args, definitions, defs, table, ast>>

ParseRawDefinitions ==
    /\ pc = "raw"
    /\ parse_raw_definitions(definitions, 1).ok
    /\ defs' = parse_raw_definitions(definitions, 1).val
    /\ pc' = "build"
    /\ UNCHANGED <<args, definitions, table, ret, ast, errs>>

ResolveError ==
    /\ pc = "raw"
    /\ ~parse_raw_definitions(definitions, 1).ok
    /\ errs' = Append(errs, parse_raw_definitions(definitions, 1).msg)
    /\ ret' = "DummyResult"
    /\ pc' = "done"
    /\ UNCHANGED <<args, definitions, defs, table, ast>>

BuildStateTables ==
    /\ pc = "build"
    /\ table' = build_state_tables(defs)
    /\ pc' = "emit"
    /\ UNCHANGED <<args, definitions, defs, ret, ast, errs>>

BuildTableAst ==
    /\ pc = "emit"
    /\ ast' = build_table_ast(table)
    /\ ret' = "MacEager"
    /\ pc' = "done"
    /\ UNCHANGED <<args, definitions, defs, table, errs>>

Next ==
    \/ ParseTableDefinitionList
    \/ SyntaxError
    \/ ParseRawDefinitions
    \/ ResolveError
    \/ BuildStateTables
    \/ BuildTableAst

Start ==
    /\ pc = "tokens"
    /\ definitions = <<>>
    /\ defs = <<>>
    /\ table = <<>>
    /\ ret = "none"
    /\ ast = <<>>
    /\ errs = <<>>

-----------------------------------------------------------------------------
(* Inputs *)

SeqsUpTo(S, n) == UNION {[1..k -> S] : k \in 0..n}

StatePath(n) == PathExpr("State::" \o n)
ActionPath(n) == PathExpr("Action::" \o n)

(* Blocks of several rules that overlap at byte 0x1B *)
SeqItems ==
    { OpenItem(StatePath("Ground")),
      OpenItem(StatePath("Escape")),
      OpenItem(PathExpr("State::Bogus")),
      ArmItem(MkArm(RangePat(IntLit(24), IntLit(27)), ActionPath("Execute"))),
      ArmItem(MkArm(LitPat(IntLit(27)), StatePath("Escape"))),
      ArmItem(MkArm(RangePat(IntLit(32), IntLit(27)),
                    TupExpr(<<ActionPath("Print"), StatePath("Ground")>>))),
      ArmItem(MkArm(LitPat(IntLit(27)), PathExpr("Action::Bogus"))) }

Init ==
    /\ args \in SeqsUpTo(SeqItems, MaxItems)
    /\ Start

Spec == Init /\ [][Next]_vars

-----------------------------------------------------------------------------
(* One rule in one block, over many patterns: literals at and beyond the    *)
(* byte boundary, ranges in either order, and patterns that are neither.    *)

RangeLits == {0, 1, 48, 57, 254, 255, 256, 313}

RangePats ==
    {LitPat(IntLit(v)) : v \in RangeLits}
    \cup {RangePat(IntLit(s), IntLit(e)) : s \in RangeLits, e \in RangeLits}
    \cup {WildPat, LitPat(StrLit), LitPat(OtherExpr),
          RangePat(IntLit(0), StrLit), RangePat(OtherExpr, IntLit(9))}

RangeHeaders == {StatePath("Anywhere"), StatePath("Ground"), StatePath("Utf8")}

RangeBodies ==
    {ActionPath("Print"),
     TupExpr(<<StatePath("CsiParam"), ActionPath("Collect")>>)}

RangeStreams ==
    {<<OpenItem(h), ArmItem(MkArm(p, b))>> :
        h \in RangeHeaders, p \in RangePats, b \in RangeBodies}
    \cup {<<ArmItem(MkArm(WildPat, b))>> : b \in RangeBodies}

InitRange ==
    /\ args \in RangeStreams
    /\ Start

SpecRange == InitRange /\ [][Next]_vars

-----------------------------------------------------------------------------
(* One rule in one block, over many transition expressions: every symbol,   *)
(* every pair of symbols, and tuples of up to MaxTupLen elements.           *)

StatePaths == {StatePath(n) : n \in SeqToSet(StateNames)}
ActionPaths == {ActionPath(n) : n \in SeqToSet(ActionNames)}
SymbolPaths == StatePaths \cup ActionPaths
AllPaths == SymbolPaths \cup {PathExpr(p) : p \in BadPaths}

TupElems ==
    {StatePath("Ground"), StatePath("CsiParam"), ActionPath("Collect"),
     ActionPath("Print"), PathExpr("Action::Bogus"), IntLit(7)}

ExprBodies ==
    {TupExpr(<<a, b>>) : a \in SymbolPaths, b \in SymbolPaths}
    \cup {TupExpr(t) : t \in SeqsUpTo(TupElems, MaxTupLen)}
    \cup {IntLit(7), OtherExpr}

ExprStreams ==
    {<<OpenItem(h), ArmItem(MkArm(LitPat(IntLit(27)), b))>> :
        h \in StatePaths, b \in AllPaths}
    \cup {<<OpenItem(StatePath("CsiEntry")), ArmItem(MkArm(LitPat(IntLit(27)), b))>> :
            b \in ExprBodies}
    \cup {<<ArmItem(MkArm(LitPat(IntLit(27)), b))>> : b \in TupElems}

InitExpr ==
    /\ args \in ExprStreams
    /\ Start

SpecExpr == InitExpr /\ [][Next]_vars

-----------------------------------------------------------------------------
(* Properties *)

(* the stream is one block holding one rule *)
OneRule == Len(args) = 2 /\ args[1].item = "open" /\ args[2].item = "arm"

(* the rules resolved; the table built *)
TableBuilt == pc = "emit" \/ (pc = "done" /\ ret = "MacEager")
Resolved == pc = "build" \/ TableBuilt

TheRow == StateAsU8(defs[1].state)
TheRule == defs[1].mappings[1]

SameFamilyPair(e) ==
    /\ e.kind = "Tup"
    /\ Len(e.elems) = 2
    /\ \A i \in 1..2 : e.elems[i].kind = "Path"
    /\ \/ \A i \in 1..2 : state_from_str(e.elems[i].path).ok
       \/ \A i \in 1..2 : action_from_str(e.elems[i].path).ok

(* C6: a tuple of two states, or of two actions, is rejected: the rule is  *)
(* never resolved into a transition and no table is emitted for it.        *)
C6_SameFamilyTupleRejected ==
    (OneRule /\ SameFamilyPair(args[2].arm.body)) =>
        (pc \notin {"build", "emit"} /\ ret # "MacEager")

(* a tuple that is not two symbol paths: another length, or an element     *)
(* that is no path                                                          *)
MalformedTuple(e) ==
    /\ e.kind = "Tup"
    /\ \/ Len(e.elems) # 2
       \/ \E i \in 1..Len(e.elems) : e.elems[i].kind # "Path"

(* C8: a tuple of one element, of three or more elements, or with an       *)
(* element that is no symbol path is rejected: the rule is never resolved  *)
(* into a transition and no table is emitted for it.                        *)
C8_MalformedTupleRejected ==
    (OneRule /\ MalformedTuple(args[2].arm.body)) =>
        (pc \notin {"build", "emit"} /\ ret # "MacEager")

(* C2: one Range rule start..=end with start <= end writes the rule's      *)
(* byte into exactly the end - start + 1 cells [S][start] .. [S][end] of   *)
(* its state's row, both endpoints included, and leaves every other cell   *)
(* of the table as it was (0).                                              *)
C2_RangeWritesExactly ==
    (OneRule /\ TableBuilt /\ TheRule.input.kind = "Range"
        /\ TheRule.input.start <= TheRule.input.end) =>
        LET code == pack_u8(TheRule.transition)
            start == TheRule.input.start
            end == TheRule.input.end
        IN /\ code # 0
           /\ \A S \in 0..15 : \A b \in 0..255 :
                 table[S][b] = IF S = TheRow /\ start <= b /\ b <= end
                               THEN code ELSE 0
           /\ Cardinality({b \in 0..255 : table[TheRow][b] = code})
                 = end - start + 1

C2_Witness ==
    /\ OneRule /\ pc = "done" /\ ret = "MacEager"
    /\ TheRule.input = Range(48, 57)
    /\ table[TheRow][47] = 0
    /\ table[TheRow][48] = 192
    /\ table[TheRow][57] = 192
    /\ table[TheRow][58] = 0

(* a pattern of integer literals only *)
IntPat(p) ==
    \/ p.kind = "Lit" /\ p.expr.kind = "Lit" /\ p.expr.lit = "Int"
    \/ /\ p.kind = "Range"
       /\ p.start.kind = "Lit" /\ p.start.lit = "Int"
       /\ p.end.kind = "Lit" /\ p.end.lit = "Int"

(* C10: an integer literal v in a pattern is accepted whatever its value   *)
(* and becomes the byte v mod 256: no error is reported, a range's bounds  *)
(* are both reduced, and a single-byte rule writes column v mod 256 of its *)
(* row and no other column.                                                 *)
C10_LiteralWraps ==
    (OneRule /\ IntPat(args[2].arm.pats[1])
        /\ state_from_expr(args[1].state_expr).ok
        /\ from_expr(args[2].arm.body).ok) =>
        LET p == args[2].arm.pats[1] IN
        /\ ret # "DummyResult"
        /\ errs = <<>>
        /\ Resolved =>
              TheRule.input = IF p.kind = "Lit"
                              THEN Specific(p.expr.val % 256)
                              ELSE Range(p.start.val % 256, p.end.val % 256)
        /\ (TableBuilt /\ p.kind = "Lit") =>
              \A b \in 0..255 :
                 table[TheRow][b] = IF b = p.expr.val % 256
                                    THEN pack_u8(TheRule.transition) ELSE 0

C10_Witness ==
    /\ OneRule /\ pc = "done" /\ ret = "MacEager"
    /\ args[2].arm.pats[1] = LitPat(IntLit(256))
    /\ args[2].arm.body = ActionPath("Print")
    /\ table[TheRow][0] = 192

-----------------------------------------------------------------------------
(* Properties of whole inputs *)

(* a range pattern whose start, as a byte, is above its end *)
InvertedRange(p) ==
    /\ p.kind = "Range"
    /\ u8_lit_from_expr(p.start).ok
    /\ u8_lit_from_expr(p.end).ok
    /\ u8_lit_from_expr(p.start).val > u8_lit_from_expr(p.end).val

(* C5: a rule whose range has start > end is rejected: the compile aborts  *)
(* and the rule never writes a cell.                                        *)
C5_InvertedRangeRejected ==
    (\E i \in 1..Len(args) :
        args[i].item = "arm" /\ InvertedRange(args[i].arm.pats[1])) =>
        (pc \notin {"build", "emit"} /\ ret # "MacEager")

(* some part of the input fails: the stream does not begin a definition, a *)
(* state header does not resolve, or an arm does not                        *)
InputFails ==
    \/ Len(args) > 0 /\ args[1].item = "arm"
    \/ \E i \in 1..Len(args) :
          \/ args[i].item = "open" /\ ~state_from_expr(args[i].state_expr).ok
          \/ args[i].item = "arm" /\ ~input_mapping_from_arm(args[i].arm).ok

Covers(input, b) ==
    IF input.kind = "Specific" THEN input.idx = b
    ELSE input.start <= b /\ b <= input.end

(* the rules of every block for state code S, in declaration order *)
RECURSIVE RulesFor(_, _)
RulesFor(S, i) ==
    IF i > Len(defs) THEN <<>>
    ELSE (IF StateAsU8(defs[i].state) = S THEN defs[i].mappings ELSE <<>>)
         \o RulesFor(S, i + 1)

Last(I) == CHOOSE i \in I : \A j \in I : j <= i

(* C3: every cell [S][b] that some rule for S covers holds the encoding of *)
(* the last rule, in declaration order over all blocks for S, that covers  *)
(* b.                                                                       *)
C3_LastCoveringRuleWins ==
    TableBuilt =>
        \A S \in 0..15 :
           LET rules == RulesFor(S, 1) IN
           \A b \in 0..255 :
              LET I == {i \in 1..Len(rules) : Covers(rules[i].input, b)} IN
              I # {} => table[S][b] = pack_u8(rules[Last(I)].transition)

(* C4: the table has 16 rows of 256 cells, and every cell [S][b] that no   *)
(* rule of a block for S covers is 0.                                       *)
C4_UncoveredCellsZero ==
    TableBuilt =>
        /\ DOMAIN table = 0..15
        /\ \A S \in 0..15 :
              LET rules == RulesFor(S, 1) IN
              /\ DOMAIN table[S] = 0..255
              /\ \A b \in 0..255 :
                    (\A i \in 1..Len(rules) : ~Covers(rules[i].input, b))
                       => table[S][b] = 0

====
